---- MODULE Spec2Model ----
(***************************************************************************)
(* Model of chain-data.py: the Streamlit script that fetches the chain     *)
(* directory (cached for one hour), normalizes it into a table, filters    *)
(* it by a search term and sorts it by a column.                           *)
(*                                                                         *)
(* Text is a sequence of one-character strings, so that lower-casing,      *)
(* substring/regex search and code-point ordering are computed.  A cell    *)
(* value is a tagged record (a Python str or a Python bool).               *)
(***************************************************************************)
EXTENDS Integers, Sequences, FiniteSets, TLC

VARIABLES
  cache,        \* st.cache_data store of fetch_chain_data, by argument tuple
  now,          \* wall clock, in half hours
  netCalls,     \* number of requests.get calls issued so far
  lastNet,      \* per argument tuple, the last network call and its outcome
  runs,         \* number of script runs (interactions) so far
  params,       \* the toggles of the last run
  hit,          \* whether the last run's fetch was served from the cache
  raw_data, df, search_term, sort_column, sort_order, filtered_df, sorted_df,
                \* the locals of the last run of main()
  diag,         \* what the last run reported: st.error / st.warning / table
  prev_diag,    \* what the run before it reported
  raised,       \* whether the last run (or step) raised an exception
  steps         \* the pipeline steps the last run executed

vars == <<cache, now, netCalls, lastNet, runs, params, hit,
          raw_data, df, search_term, sort_column, sort_order,
          filtered_df, sorted_df, diag, prev_diag, raised, steps>>

-----------------------------------------------------------------------------
(* Bounds of the model *)

MaxChains == 3
MaxRawChains == 2
MaxQueryLen == 2
MaxRuns == 2
MaxInteractions == 2
MaxTime == 3

-----------------------------------------------------------------------------
(* Characters, code points, str.lower *)

CodePoint ==
  [c \in {"(", "*", "-", ".", "/", "0", "1", "2", "3", "A", "B", "F", "N",
          "T", "[", "a", "b", "c", "e", "l", "n", "r", "s", "u", "|"} |->
     CASE c = "(" -> 40  [] c = "*" -> 42  [] c = "-" -> 45  [] c = "." -> 46
       [] c = "/" -> 47  [] c = "0" -> 48  [] c = "1" -> 49  [] c = "2" -> 50
       [] c = "3" -> 51  [] c = "A" -> 65  [] c = "B" -> 66  [] c = "F" -> 70
       [] c = "N" -> 78  [] c = "T" -> 84  [] c = "[" -> 91  [] c = "a" -> 97
       [] c = "b" -> 98  [] c = "c" -> 99  [] c = "e" -> 101 [] c = "l" -> 108
       [] c = "n" -> 110 [] c = "r" -> 114 [] c = "s" -> 115 [] c = "u" -> 117
       [] c = "|" -> 124]

LowerChar(c) ==
  CASE c = "A" -> "a" [] c = "B" -> "b" [] c = "F" -> "f" [] c = "N" -> "n"
    [] c = "T" -> "t" [] OTHER -> c

\* str.lower()
Lower(s) == [i \in 1..Len(s) |-> LowerChar(s[i])]

-----------------------------------------------------------------------------
(* Cell values *)

StrV(s) == [t |-> "str", s |-> s, b |-> FALSE]
BoolV(b) == [t |-> "bool", s |-> <<>>, b |-> b]

NA == StrV(<<"N", "/", "A">>)
EmptyStr == StrV(<<>>)

\* str(v), as applied by row.astype(str)
AsStr(v) ==
  IF v.t = "bool"
    THEN (IF v.b THEN <<"T", "r", "u", "e">> ELSE <<"F", "a", "l", "s", "e">>)
    ELSE v.s

-----------------------------------------------------------------------------
(* Wire keys and table columns *)

WireKeys == {"logo_uri", "chain_name", "chain_id", "pfm_enabled",
             "chain_type", "is_testnet", "pretty_name", "bech32_prefix"}

Columns == {"Logo URI", "Name", "Chain ID", "PFM Enabled", "Chain Type",
            "Is Testnet", "Pretty Name", "Bech32 Prefix"}

WireOf(col) ==
  CASE col = "Logo URI" -> "logo_uri"
    [] col = "Name" -> "chain_name"
    [] col = "Chain ID" -> "chain_id"
    [] col = "PFM Enabled" -> "pfm_enabled"
    [] col = "Chain Type" -> "chain_type"
    [] col = "Is Testnet" -> "is_testnet"
    [] col = "Pretty Name" -> "pretty_name"
    [] col = "Bech32 Prefix" -> "bech32_prefix"

\* dict.get(key, default)
Get(chain, key, default) ==
  IF key \in DOMAIN chain THEN chain[key] ELSE default

-----------------------------------------------------------------------------
(* process_chain_data *)

\* .lower() exists on str only: a chain_name of another type raises
\* AttributeError.
ChainRaises(chain) == Get(chain, "chain_name", NA).t # "str"

ChainInfo(chain) ==
  [col \in Columns |->
     CASE col = "Name" -> StrV(Lower(Get(chain, "chain_name", NA).s))
       [] col = "Bech32 Prefix" -> Get(chain, "bech32_prefix", EmptyStr)
       [] OTHER -> Get(chain, WireOf(col), NA)]

\* JSON documents: null, a non-mapping (a list), or a mapping with or
\* without the 'chains' key.
JsonNull == [kind |-> "null", hasChains |-> FALSE, size |-> 0, chains |-> <<>>]
JsonList(n) == [kind |-> "list", hasChains |-> FALSE, size |-> n, chains |-> <<>>]
JsonDict(n) == [kind |-> "dict", hasChains |-> FALSE, size |-> n, chains |-> <<>>]
JsonChains(cs) == [kind |-> "dict", hasChains |-> TRUE, size |-> 1, chains |-> cs]

\* not data or not isinstance(data, dict) or 'chains' not in data
InvalidData(data) ==
  \/ data.kind = "null"
  \/ data.size = 0
  \/ data.kind # "dict"
  \/ ~data.hasChains

\* lines 51-69: one row per chain, unless a chain raises
ProcessChains(data) ==
  IF \E i \in 1..Len(data.chains) : ChainRaises(data.chains[i])
    THEN [raised |-> TRUE, rows |-> <<>>]
    ELSE [raised |-> FALSE,
          rows |-> [i \in 1..Len(data.chains) |-> ChainInfo(data.chains[i])]]

\* process_chain_data without the guard of line 47: data['chains'] raises
\* on None, on a list and on a mapping without the key
process_chain_data_unguarded(data) ==
  IF data.kind # "dict" \/ ~data.hasChains
    THEN [raised |-> TRUE, rows |-> <<>>]
    ELSE ProcessChains(data)

\* result of process_chain_data: raised, or the DataFrame as its rows
process_chain_data(data) ==
  IF InvalidData(data)
    THEN [raised |-> FALSE, rows |-> <<>>]
    ELSE ProcessChains(data)

-----------------------------------------------------------------------------
(* Search: row.astype(str).str.contains(search_term, case=False, na=False) *)
(* str.contains has regex=True by default: the term is compiled with       *)
(* re.compile(term, re.IGNORECASE) and each cell is tested with re.search. *)

\* The characters a search term is drawn from.  The closing ")" and "]" are
\* not among them, so every "(" or "[" is unterminated.
QueryChars == {"a", "N", ".", "*", "(", "[", "|"}

\* re.compile raises re.error: unterminated group or set, or a "*" with
\* nothing to repeat / a repeated repeat.
RegexError(pat) ==
  \E i \in 1..Len(pat) :
    \/ pat[i] \in {"(", "["}
    \/ pat[i] = "*" /\ (i = 1 \/ pat[i - 1] \in {"*", "|"})

\* the alternatives of pat, split at "|"
Alternatives(pat) ==
  LET cuts == {0, Len(pat) + 1} \cup {i \in 1..Len(pat) : pat[i] = "|"}
  IN {SubSeq(pat, x[1] + 1, x[2] - 1) :
        x \in {y \in cuts \X cuts :
                 /\ y[1] < y[2]
                 /\ ~\E c \in cuts : y[1] < c /\ c < y[2]}}

\* one pattern character against one text character, ignoring case
CharMatch(pc, c) == pc = "." \/ LowerChar(pc) = LowerChar(c)

RECURSIVE MatchHere(_, _, _, _)
\* alt[i..] matches a prefix of s[j..]
MatchHere(alt, i, s, j) ==
  IF i > Len(alt) THEN TRUE
  ELSE IF i < Len(alt) /\ alt[i + 1] = "*"
    THEN \/ MatchHere(alt, i + 2, s, j)
         \/ /\ j <= Len(s)
            /\ CharMatch(alt[i], s[j])
            /\ MatchHere(alt, i, s, j + 1)
    ELSE /\ j <= Len(s)
         /\ CharMatch(alt[i], s[j])
         /\ MatchHere(alt, i + 1, s, j + 1)

\* re.search(pat, s, re.IGNORECASE) is not None, for a pat that compiles
Search(pat, s) ==
  \E alt \in Alternatives(pat) :
    \E j \in 1..(Len(s) + 1) : MatchHere(alt, 1, s, j)

\* the boolean mask of one row
RowMatches(row, term) == \E col \in Columns : Search(term, AsStr(row[col]))

RECURSIVE SelectRows(_, _)
\* boolean-mask indexing keeps the selected rows in their order
SelectRows(rows, term) ==
  IF rows = <<>> THEN <<>>
  ELSE IF RowMatches(Head(rows), term)
    THEN <<Head(rows)>> \o SelectRows(Tail(rows), term)
    ELSE SelectRows(Tail(rows), term)

\* lines 125-129: the filter step on a non-empty frame
FilterStep(rows, term) ==
  IF term = <<>> THEN [raised |-> FALSE, rows |-> rows]
  ELSE IF RegexError(term) THEN [raised |-> TRUE, rows |-> <<>>]
  ELSE [raised |-> FALSE, rows |-> SelectRows(rows, term)]

-----------------------------------------------------------------------------
(* Sort: DataFrame.sort_values(by, key, ascending), kind='quicksort'       *)

\* str < str: lexicographic by code point
StrLess(a, b) ==
  \E k \in 1..(Len(a) + 1) :
    /\ \A i \in 1..(k - 1) : i <= Len(b) /\ a[i] = b[i]
    /\ k <= Len(b)
    /\ (k > Len(a) \/ CodePoint[a[k]] < CodePoint[b[k]])

\* a < b for two values of one type (False < True)
Less(a, b) ==
  IF a.t = "bool" THEN ~a.b /\ b.b ELSE StrLess(a.s, b.s)

\* '<' between a str and a bool raises TypeError; a comparison sort of a
\* column holding both compares some such pair.
SortRaises(keys) ==
  \E i, j \in 1..Len(keys) : keys[i].t # keys[j].t

Swap(t, i, j) == [t EXCEPT ![i] = t[j], ![j] = t[i]]

\* numpy's quicksort sorts ranges of at most SMALL_QUICKSORT + 1 elements by
\* insertion and partitions longer ones.
SMALL_QUICKSORT == 16

RECURSIVE InsertAt(_, _, _, _, _)
\* while (pj > pl && less(vp, v[*pk])) *pj-- = *pk--;  *pj = vi
InsertAt(v, t, pl, pj, vi) ==
  IF pj > pl /\ Less(v[vi], v[t[pj - 1]])
    THEN InsertAt(v, [t EXCEPT ![pj] = t[pj - 1]], pl, pj - 1, vi)
    ELSE [t EXCEPT ![pj] = vi]

RECURSIVE InsertionSort(_, _, _, _, _)
InsertionSort(v, t, pl, pr, pi) ==
  IF pi > pr THEN t
  ELSE InsertionSort(v, InsertAt(v, t, pl, pi, t[pi]), pl, pr, pi + 1)

RECURSIVE ScanUp(_, _, _, _)
\* do ++pi while less(v[*pi], vp)
ScanUp(v, t, pi, vp) ==
  IF Less(v[t[pi]], vp) THEN ScanUp(v, t, pi + 1, vp) ELSE pi

RECURSIVE ScanDown(_, _, _, _)
\* do --pj while less(vp, v[*pj])
ScanDown(v, t, pj, vp) ==
  IF Less(vp, v[t[pj]]) THEN ScanDown(v, t, pj - 1, vp) ELSE pj

RECURSIVE PartitionLoop(_, _, _, _, _)
RECURSIVE PartitionSwap(_, _, _, _, _)
\* for (;;) { scan up; scan down; if (pi >= pj) break; swap }
PartitionLoop(v, t, pi, pj, vp) ==
  PartitionSwap(v, t, ScanUp(v, t, pi + 1, vp), ScanDown(v, t, pj - 1, vp), vp)

PartitionSwap(v, t, pi, pj, vp) ==
  IF pi >= pj THEN [t |-> t, pi |-> pi]
  ELSE PartitionLoop(v, Swap(t, pi, pj), pi, pj, vp)

\* if (less(v[*a], v[*b])) swap(*a, *b)
SwapIfLess(v, t, a, b) ==
  IF Less(v[t[a]], v[t[b]]) THEN Swap(t, a, b) ELSE t

\* the median of three moved to pm
MedianOfThree(v, t, pl, pm, pr) ==
  SwapIfLess(v, SwapIfLess(v, SwapIfLess(v, t, pm, pl), pr, pm), pm, pl)

\* the pivot goes back between the two parts
PartitionEnd(lp, pr) == [t |-> Swap(lp.t, lp.pi, pr - 1), pi |-> lp.pi]

\* pivot v[*pm] parked at pr - 1, then the partition loop
PartitionAround(v, t, pl, pm, pr) ==
  PartitionEnd(PartitionLoop(v, Swap(t, pm, pr - 1), pl, pr - 1, v[t[pm]]), pr)

Partition(v, t, pl, pr) ==
  PartitionAround(v, MedianOfThree(v, t, pl, pl + ((pr - pl) \div 2), pr),
                  pl, pl + ((pr - pl) \div 2), pr)

RECURSIVE AQuickSort(_, _, _, _)
RECURSIVE SortParts(_, _, _, _)
\* The fall-back to heapsort after 2*floor(log2(n)) partitions is not
\* reached for the lengths modelled (one partition leaves two short ranges).
AQuickSort(v, t, pl, pr) ==
  IF pr - pl > SMALL_QUICKSORT
    THEN SortParts(v, Partition(v, t, pl, pr), pl, pr)
    ELSE InsertionSort(v, t, pl, pr, pl + 1)

SortParts(v, p, pl, pr) ==
  AQuickSort(v, AQuickSort(v, p.t, pl, p.pi - 1), p.pi + 1, pr)

\* ndarray.argsort(kind='quicksort') of a column of one type
ArgSort(v) == AQuickSort(v, [i \in 1..Len(v) |-> i], 1, Len(v))

Reverse(s) == [i \in 1..Len(s) |-> s[Len(s) + 1 - i]]

\* positions in the reversed items, as positions in the items
Unreversed(ix) == [i \in 1..Len(ix) |-> Len(ix) + 1 - ix[i]]

\* pandas nargsort: descending sorts the reversed items ascending and
\* reverses the indexer
nargsort(keys, ascending) ==
  IF ascending THEN ArgSort(keys)
  ELSE Reverse(Unreversed(ArgSort(Reverse(keys))))

\* DataFrame.take(indexer)
Take(rows, ix) == [i \in 1..Len(ix) |-> rows[ix[i]]]

\* lines 141-144: the Name column is compared through x.str.lower()
SortKey(row, col) ==
  IF col = "Name" THEN StrV(Lower(row[col].s)) ELSE row[col]

KeysOf(rows, col) == [i \in 1..Len(rows) |-> SortKey(rows[i], col)]

\* lines 146-149: the sort step
SortStep(rows, col, ascending) ==
  IF SortRaises(KeysOf(rows, col)) THEN [raised |-> TRUE, rows |-> <<>>]
  ELSE [raised |-> FALSE, rows |-> Take(rows, nargsort(KeysOf(rows, col), ascending))]

NameCells(rows) == [i \in 1..Len(rows) |-> rows[i]["Name"]]

\* line 118: df.sort_values(by='Name'); Name cells are always str
DefaultSort(rows) == Take(rows, nargsort(NameCells(rows), TRUE))

-----------------------------------------------------------------------------
(* Reports of a run *)

FetchErrorMsg == [kind |-> "fetch-error", msg |-> "Error fetching data from API: "]
NoDataMsg == [kind |-> "no-data", msg |-> "No data available. Please try again later."]
UnexpectedMsg == [kind |-> "unexpected", msg |-> "An unexpected error occurred: "]
OkMsg == [kind |-> "ok", msg |-> "Chain Data Table"]

Kinds(d) == {d[i].kind : i \in 1..Len(d)}

-----------------------------------------------------------------------------
(* fetch_chain_data under @st.cache_data(ttl=timedelta(hours=1)) *)

Params == [include_evm : BOOLEAN, include_svm : BOOLEAN, only_testnets : BOOLEAN]

\* one hour, in clock units of half an hour
TTL == 2

\* a cache keyed without the only_testnets argument
CacheKeyNoTestnets(p) == [p EXCEPT !.only_testnets = FALSE]

\* st.cache_data keys an entry by the values of all arguments
CacheKey(p) == p

NoEntry == [present |-> FALSE, at |-> 0, data |-> JsonNull, msgs |-> <<>>]
NoCall == [at |-> -1, ok |-> FALSE, data |-> JsonNull]

Live(entry, t) == entry.present /\ t < entry.at + TTL

\* an except branch that returns None without st.error
FetchBodySilent(net) ==
  IF net.ok THEN [data |-> net.data, msgs |-> <<>>]
  ELSE [data |-> JsonNull, msgs |-> <<>>]

\* What the function body returns for a network outcome: the parsed JSON, or
\* None after st.error when requests raises RequestException (connection
\* failure, raise_for_status, and a body that is not JSON, whose
\* requests.JSONDecodeError is a RequestException).  A JSON null body and a
\* failure both return None; they differ in the st.error emitted.
FetchBody(net) ==
  IF net.ok THEN [data |-> net.data, msgs |-> <<>>]
  ELSE [data |-> JsonNull, msgs |-> <<FetchErrorMsg>>]

\* st.cache_data stores whatever the body returns, with the st elements the
\* body emitted, and replays both on a hit.
CacheStore(c, p, t, ret) ==
  [c EXCEPT ![CacheKey(p)] =
     [present |-> TRUE, at |-> t, data |-> ret.data, msgs |-> ret.msgs]]

\* the call fetch_chain_data(include_evm, include_svm, only_testnets): an
\* entry younger than the TTL is returned without running the body
fetch_chain_data(c, t, p, net) ==
  IF Live(c[CacheKey(p)], t)
    THEN [hit |-> TRUE, data |-> c[CacheKey(p)].data,
          msgs |-> c[CacheKey(p)].msgs, cache |-> c]
    ELSE [hit |-> FALSE, data |-> FetchBody(net).data,
          msgs |-> FetchBody(net).msgs,
          cache |-> CacheStore(c, p, t, FetchBody(net))]

-----------------------------------------------------------------------------
(* main(): one script run *)

\* the locals and reports of a run that returns at line 115
Early(msgs) ==
  [df |-> <<>>, search_term |-> <<>>, sort_column |-> "Name",
   sort_order |-> "Ascending", filtered_df |-> <<>>, sorted_df |-> <<>>,
   diag |-> msgs, raised |-> FALSE, steps |-> {"fetch", "normalize"}]

\* lines 146-155
AfterSort(rows, filtered, srt, msgs, term, col, order) ==
  IF srt.raised
    THEN [Early(msgs) EXCEPT !.df = rows, !.search_term = term,
                             !.sort_column = col, !.sort_order = order,
                             !.filtered_df = filtered, !.raised = TRUE,
                             !.steps = {"fetch", "normalize", "filter", "sort"}]
    ELSE [Early(msgs) EXCEPT !.df = rows, !.search_term = term,
                             !.sort_column = col, !.sort_order = order,
                             !.filtered_df = filtered, !.sorted_df = srt.rows,
                             !.diag = msgs \o <<OkMsg>>,
                             !.steps = {"fetch", "normalize", "filter", "sort"}]

\* lines 125-149
AfterFilter(rows, flt, msgs, term, col, order) ==
  IF flt.raised
    THEN [Early(msgs) EXCEPT !.df = rows, !.search_term = term,
                             !.raised = TRUE,
                             !.steps = {"fetch", "normalize", "filter"}]
    ELSE AfterSort(rows, flt.rows, SortStep(flt.rows, col, order = "Ascending"),
                   msgs, term, col, order)

\* lines 112-129
AfterProcess(proc, msgs, term, col, order) ==
  IF proc.raised THEN [Early(msgs) EXCEPT !.raised = TRUE]
  ELSE IF proc.rows = <<>> THEN [Early(msgs) EXCEPT !.diag = msgs \o <<NoDataMsg>>]
  ELSE AfterFilter(proc.rows, FilterStep(DefaultSort(proc.rows), term),
                   msgs, term, col, order)

\* lines 110-155 on the fetched data, for the widget values term, col,
\* order: the locals, what was reported, and whether an exception was raised
Pipeline(data, msgs, term, col, order) ==
  AfterProcess(process_chain_data(data), msgs, term, col, order)

\* a handler that reports nothing
ExceptSilent(out) == out.diag

\* lines 159-161: except Exception reports the exception with st.error
Except(out) ==
  IF out.raised THEN out.diag \o <<UnexpectedMsg>> ELSE out.diag

\* the state after a run whose fetch gave f and whose pipeline gave out
Finish(p, ok, f, out) ==
  /\ cache' = f.cache
  /\ netCalls' = IF f.hit THEN netCalls ELSE netCalls + 1
  /\ lastNet' = IF f.hit THEN lastNet
                ELSE [lastNet EXCEPT ![p] = [at |-> now, ok |-> ok, data |-> f.data]]
  /\ runs' = runs + 1
  /\ params' = p
  /\ hit' = f.hit
  /\ raw_data' = f.data
  /\ df' = out.df
  /\ search_term' = out.search_term
  /\ sort_column' = out.sort_column
  /\ sort_order' = out.sort_order
  /\ filtered_df' = out.filtered_df
  /\ sorted_df' = out.sorted_df
  /\ diag' = Except(out)
  /\ prev_diag' = diag
  /\ raised' = out.raised
  /\ steps' = out.steps
  /\ now' = now

\* lines 109-155
Run(p, ok, f, term, col, order) ==
  Finish(p, ok, f, Pipeline(f.data, f.msgs, term, col, order))

Main(p, net, term, col, order) ==
  Run(p, net.ok, fetch_chain_data(cache, now, p, net), term, col, order)

DefaultParams == [include_evm |-> TRUE, include_svm |-> TRUE, only_testnets |-> FALSE]

Init ==
  /\ cache = [p \in Params |-> NoEntry]
  /\ now = 0
  /\ netCalls = 0
  /\ lastNet = [p \in Params |-> NoCall]
  /\ runs = 0
  /\ params = DefaultParams
  /\ hit = FALSE
  /\ raw_data = JsonNull
  /\ df = <<>>
  /\ search_term = <<>>
  /\ sort_column = "Name"
  /\ sort_order = "Ascending"
  /\ filtered_df = <<>>
  /\ sorted_df = <<>>
  /\ diag = <<>>
  /\ prev_diag = <<>>
  /\ raised = FALSE
  /\ steps = {}

-----------------------------------------------------------------------------
(* The cache over time: any toggles, a failing or answering service *)

OsmosisChain == [chain_name |-> StrV(<<"B", "a">>), chain_id |-> StrV(<<"b", "-", "2">>),
                 pfm_enabled |-> BoolV(TRUE)]
CosmosChain == [chain_name |-> StrV(<<"a">>), chain_id |-> StrV(<<"a", "-", "1">>)]
BadNameChain == [chain_name |-> BoolV(TRUE), chain_id |-> StrV(<<"c", "-", "3">>)]

NetFail == [ok |-> FALSE, data |-> JsonNull]
NetOk(data) == [ok |-> TRUE, data |-> data]

CacheOutcomes == {NetFail, NetOk(JsonChains(<<OsmosisChain>>)),
                  NetOk(JsonChains(<<CosmosChain>>))}

Interact ==
  /\ runs < MaxRuns
  /\ \E p \in Params, net \in CacheOutcomes :
       Main(p, net, <<>>, "Name", "Ascending")

Tick ==
  /\ now < MaxTime
  /\ now' = now + 1
  /\ UNCHANGED <<cache, netCalls, lastNet, runs, params, hit, raw_data, df,
                 search_term, sort_column, sort_order, filtered_df, sorted_df,
                 diag, prev_diag, raised, steps>>

Next == Interact \/ Tick

Spec == Init /\ [][Next]_vars

-----------------------------------------------------------------------------
(* The pipeline on every shape of response *)

PipelineParams == {DefaultParams, [DefaultParams EXCEPT !.only_testnets = TRUE]}

PipelineOutcomes ==
  {NetFail, NetOk(JsonNull), NetOk(JsonList(1)), NetOk(JsonDict(0)),
   NetOk(JsonDict(1)), NetOk(JsonChains(<<>>)),
   NetOk(JsonChains(<<OsmosisChain, CosmosChain>>)),
   NetOk(JsonChains(<<BadNameChain>>))}

PipelineTerms == {<<>>, <<"a">>, <<"(">>}
PipelineColumns == {"Name", "Chain ID", "PFM Enabled"}
SortOrders == {"Ascending", "Descending"}

InteractP ==
  /\ runs < MaxInteractions
  /\ \E p \in PipelineParams, net \in PipelineOutcomes, term \in PipelineTerms,
        col \in PipelineColumns, order \in SortOrders :
       Main(p, net, term, col, order)

NextPipeline == InteractP

SpecPipeline == Init /\ [][NextPipeline]_vars

-----------------------------------------------------------------------------
(* process_chain_data on raw documents *)

RECURSIVE SeqsUpTo(_, _)
\* the sequences over S of length at most n
SeqsUpTo(S, n) ==
  IF n = 0 THEN {<<>>}
  ELSE LET shorter == SeqsUpTo(S, n - 1)
       IN shorter \cup {Append(q, x) : q \in shorter, x \in S}

\* a value of the expected type for a wire key, and one of another type
Typed(k) ==
  CASE k = "chain_name" -> StrV(<<"A", "b">>)
    [] k = "pfm_enabled" -> BoolV(TRUE)
    [] k = "is_testnet" -> BoolV(FALSE)
    [] k = "bech32_prefix" -> StrV(<<"B">>)
    [] k = "chain_id" -> StrV(<<"a", "-", "1">>)
    [] OTHER -> StrV(<<"N", "a">>)

Untyped(k) ==
  IF k \in {"pfm_enabled", "is_testnet"} THEN StrV(<<"T", "r", "u", "e">>)
  ELSE BoolV(TRUE)

PresentSets ==
  {WireKeys \cup {"extra_field"}, {}, {"chain_name", "chain_id"}}
    \cup {WireKeys \ {k} : k \in WireKeys}

OddSets == {{}, {"chain_name"}, {"chain_id"}, {"is_testnet"}}

RawRecords ==
  {[k \in K |-> IF k \in O THEN Untyped(k) ELSE Typed(k)] :
     K \in PresentSets, O \in OddSets}

RawDocuments ==
  {JsonNull, JsonList(0), JsonList(1), JsonDict(0), JsonDict(1)}
    \cup {JsonChains(cs) : cs \in SeqsUpTo(RawRecords, MaxRawChains)}

InitN ==
  /\ cache = [p \in Params |-> NoEntry]
  /\ now = 0
  /\ netCalls = 0
  /\ lastNet = [p \in Params |-> NoCall]
  /\ runs = 0
  /\ params = DefaultParams
  /\ hit = FALSE
  /\ raw_data \in RawDocuments
  /\ df = <<>>
  /\ search_term = <<>>
  /\ sort_column = "Name"
  /\ sort_order = "Ascending"
  /\ filtered_df = <<>>
  /\ sorted_df = <<>>
  /\ diag = <<>>
  /\ prev_diag = <<>>
  /\ raised = FALSE
  /\ steps = {}

Normalize ==
  /\ steps = {}
  /\ df' = process_chain_data(raw_data).rows
  /\ raised' = process_chain_data(raw_data).raised
  /\ steps' = {"normalize"}
  /\ UNCHANGED <<cache, now, netCalls, lastNet, runs, params, hit, raw_data,
                 search_term, sort_column, sort_order, filtered_df, sorted_df,
                 diag, prev_diag>>

NextNormalize == Normalize

SpecNormalize == InitN /\ [][NextNormalize]_vars

-----------------------------------------------------------------------------
(* The filter step on normalized frames *)

NobleChain == [chain_name |-> StrV(<<"N">>), pretty_name |-> StrV(<<"N", ".", "a">>),
               is_testnet |-> BoolV(FALSE), bech32_prefix |-> StrV(<<"n">>)]
FullChain == [k \in WireKeys |->
                IF k \in {"pfm_enabled", "is_testnet"} THEN BoolV(TRUE)
                ELSE StrV(<<"b">>)]

FilterChains == {OsmosisChain, CosmosChain, NobleChain, FullChain}

\* the non-empty frames process_chain_data builds from chains over S
Frames(S) ==
  {process_chain_data(JsonChains(cs)).rows :
     cs \in SeqsUpTo(S, MaxChains) \ {<<>>}}

Terms == SeqsUpTo(QueryChars, MaxQueryLen)

InitF ==
  /\ cache = [p \in Params |-> NoEntry]
  /\ now = 0
  /\ netCalls = 0
  /\ lastNet = [p \in Params |-> NoCall]
  /\ runs = 0
  /\ params = DefaultParams
  /\ hit = FALSE
  /\ raw_data = JsonNull
  /\ df \in Frames(FilterChains)
  /\ search_term \in Terms
  /\ sort_column = "Name"
  /\ sort_order = "Ascending"
  /\ filtered_df = <<>>
  /\ sorted_df = <<>>
  /\ diag = <<>>
  /\ prev_diag = <<>>
  /\ raised = FALSE
  /\ steps = {}

FilterDone(flt) ==
  /\ filtered_df' = flt.rows
  /\ raised' = flt.raised
  /\ steps' = {"filter"}
  /\ UNCHANGED <<cache, now, netCalls, lastNet, runs, params, hit, raw_data,
                 df, search_term, sort_column, sort_order, sorted_df, diag,
                 prev_diag>>

\* lines 118-129
Filter ==
  /\ steps = {}
  /\ FilterDone(FilterStep(DefaultSort(df), search_term))

NextFilter == Filter

SpecFilter == InitF /\ [][NextFilter]_vars

-----------------------------------------------------------------------------
(* The sort step on normalized frames *)

TieChain == [chain_name |-> StrV(<<"b">>), chain_id |-> StrV(<<"c", "-", "3">>),
             pfm_enabled |-> BoolV(FALSE)]

SortChains == {OsmosisChain, CosmosChain, TieChain}

\* a directory longer than SMALL_QUICKSORT + 1: distinct names, one chain type
BigNameChars == <<"0", "1", "2", "3", "a">>

BigChain(i) ==
  LET name == <<BigNameChars[((i - 1) \div 5) + 1], BigNameChars[((i - 1) % 5) + 1]>>
  IN [chain_name |-> StrV(name), chain_id |-> StrV(name),
      chain_type |-> StrV(<<"c">>), pfm_enabled |-> BoolV(i % 2 = 1)]

BigChains == [i \in 1..(SMALL_QUICKSORT + 2) |-> BigChain(i)]

SortFrames ==
  Frames(SortChains) \cup {process_chain_data(JsonChains(BigChains)).rows}

SortTerms == {<<>>, <<"a">>}

InitS ==
  /\ cache = [p \in Params |-> NoEntry]
  /\ now = 0
  /\ netCalls = 0
  /\ lastNet = [p \in Params |-> NoCall]
  /\ runs = 0
  /\ params = DefaultParams
  /\ hit = FALSE
  /\ raw_data = JsonNull
  /\ df \in SortFrames
  /\ search_term \in SortTerms
  /\ sort_column \in Columns
  /\ sort_order \in SortOrders
  /\ filtered_df = <<>>
  /\ sorted_df = <<>>
  /\ diag = <<>>
  /\ prev_diag = <<>>
  /\ raised = FALSE
  /\ steps = {}

SortDone(filtered, srt) ==
  /\ filtered_df' = filtered
  /\ sorted_df' = srt.rows
  /\ raised' = srt.raised
  /\ steps' = {"filter", "sort"}
  /\ UNCHANGED <<cache, now, netCalls, lastNet, runs, params, hit, raw_data,
                 df, search_term, sort_column, sort_order, diag, prev_diag>>

SortFiltered(filtered) ==
  SortDone(filtered, SortStep(filtered, sort_column, sort_order = "Ascending"))

\* lines 118-149
Sort ==
  /\ steps = {}
  /\ SortFiltered(FilterStep(DefaultSort(df), search_term).rows)

NextSort == Sort

SpecSort == InitS /\ [][NextSort]_vars

-----------------------------------------------------------------------------
(* Properties *)

\* the last run issued a network call and it failed
FetchFailed == runs > 0 /\ ~hit /\ ~lastNet[params].ok

\* C1: a call for an argument tuple whose last network call is less than one
\* TTL old issues no network call and returns that call's result; any other
\* call (no entry for exactly this tuple, or an expired one) issues one new
\* network call and returns that call's own result.
C1_CacheWindow ==
  [][runs' = runs + 1 =>
       IF lastNet[params'].at >= 0 /\ now < lastNet[params'].at + TTL
         THEN /\ netCalls' = netCalls
              /\ hit'
              /\ raw_data' = lastNet[params'].data
              /\ lastNet' = lastNet
         ELSE /\ netCalls' = netCalls + 1
              /\ ~hit'
              /\ lastNet'[params'].at = now
              /\ raw_data' = lastNet'[params'].data
              /\ \A q \in Params \ {params'} : lastNet'[q] = lastNet[q]]_vars

\* a second call for the same tuple inside the window, served from the cache
C1_Witness ==
  /\ runs = 2
  /\ hit
  /\ netCalls = 1
  /\ now = 1
  /\ lastNet[params].ok

\* C2: the cache holds no entry for a tuple whose last network call failed.
C2_SuccessOnly ==
  \A p \in Params :
    (lastNet[p].at >= 0 /\ ~lastNet[p].ok) => ~cache[CacheKey(p)].present

ExpectedCell(chain, col) ==
  IF WireOf(col) \in DOMAIN chain
    THEN IF col = "Name" /\ chain[WireOf(col)].t = "str"
           THEN StrV(Lower(chain[WireOf(col)].s))
           ELSE chain[WireOf(col)]
    ELSE IF col = "Bech32 Prefix" THEN EmptyStr ELSE NA

\* C4: for a mapping with a 'chains' collection, process_chain_data returns
\* one row per chain, in order, with exactly the eight columns: a present
\* field unchanged (chain_name lowercased), an absent one "N/A" ("" for
\* bech32_prefix).
C4_DefaultTable ==
  (steps = {"normalize"} /\ raw_data.kind = "dict" /\ raw_data.hasChains) =>
    /\ ~raised
    /\ Len(df) = Len(raw_data.chains)
    /\ \A i \in 1..Len(df) :
         /\ DOMAIN df[i] = Columns
         /\ \A col \in Columns : df[i][col] = ExpectedCell(raw_data.chains[i], col)

\* q is a literal substring of s, ignoring case
LiteralIn(q, s) ==
  \E j \in 1..(Len(s) - Len(q) + 1) :
    \A k \in 1..Len(q) : LowerChar(s[j + k - 1]) = LowerChar(q[k])

LiteralSelect(rows, q) ==
  LET Keep(r) == \E col \in Columns : LiteralIn(q, AsStr(r[col]))
  IN SelectSeq(rows, Keep)

\* C5: the filter step returns, in input order, exactly the rows in which
\* the term is a literal case-insensitive substring of some cell's text, for
\* every term.
C5_LiteralSubstring ==
  steps = {"filter"} =>
    /\ ~raised
    /\ filtered_df = LiteralSelect(DefaultSort(df), search_term)

\* the rows of a frame whose sort key is k, in frame order
WithKey(rows, col, k) ==
  LET Same(r) == SortKey(r, col) = k
  IN SelectSeq(rows, Same)

\* C6: the sort step is stable in both directions: rows with equal sort keys
\* keep the relative order they had in the sort's input.
C6_Stable ==
  (steps = {"filter", "sort"} /\ ~raised) =>
    \A i \in 1..Len(filtered_df) :
      LET k == SortKey(filtered_df[i], sort_column)
      IN WithKey(sorted_df, sort_column, k) = WithKey(filtered_df, sort_column, k)

\* a mapping with no chains, or no mapping at all
Degenerate(data) ==
  \/ data.kind # "dict"
  \/ ~data.hasChains
  \/ data.chains = <<>>

\* C7: when the fetch succeeded with null, a non-mapping, a mapping without
\* 'chains' or with an empty 'chains', the run raises nothing, has an empty
\* result, reports no-data only, and runs neither filter nor sort.
C7_NoData ==
  (runs > 0 /\ lastNet[params].ok /\ Degenerate(raw_data)) =>
    /\ ~raised
    /\ df = <<>>
    /\ sorted_df = <<>>
    /\ diag = <<NoDataMsg>>
    /\ steps \cap {"filter", "sort"} = {}

C7_Witness ==
  /\ runs > 0
  /\ lastNet[params].ok
  /\ raw_data = JsonList(1)
  /\ diag = <<NoDataMsg>>

\* the last run's data, term and column give filter and sort nothing to raise
Healthy ==
  /\ raw_data.kind = "dict" /\ raw_data.hasChains /\ raw_data.chains # <<>>
  /\ \A i \in 1..Len(raw_data.chains) : ~ChainRaises(raw_data.chains[i])
  /\ ~RegexError(search_term)
  /\ ~SortRaises(KeysOf(SelectRows(DefaultSort(df), search_term), sort_column))

Occurrences(rows, r) == Cardinality({i \in 1..Len(rows) : rows[i] = r})

\* C9: the sort step returns, for every frame, column and direction, a
\* permutation of its input whose keys are non-decreasing when ascending and
\* non-increasing when descending.
C9_SortedPermutation ==
  steps = {"filter", "sort"} =>
    /\ ~raised
    /\ Len(sorted_df) = Len(filtered_df)
    /\ \A i \in 1..Len(filtered_df) :
         Occurrences(sorted_df, filtered_df[i]) = Occurrences(filtered_df, filtered_df[i])
    /\ \A i, j \in 1..Len(sorted_df) :
         i < j =>
           IF sort_order = "Ascending"
             THEN ~Less(SortKey(sorted_df[j], sort_column), SortKey(sorted_df[i], sort_column))
             ELSE ~Less(SortKey(sorted_df[i], sort_column), SortKey(sorted_df[j], sort_column))

\* C10: a run that reaches the sort step, on any column of the normalized
\* frame (a column mixing booleans and "N/A" included), completes and shows
\* the table.
C10_MixedColumnsSort ==
  (runs > 0 /\ ~RegexError(search_term) /\ df # <<>>) =>
    /\ ~raised
    /\ diag[Len(diag)] = OkMsg

====
